---------------------------- MODULE Spec2Model ----------------------------
(***************************************************************************)
(* A model of the spelling corrector of src/main.rs: the tokenizer         *)
(* (WordList::parse_tokens), the line and file parsers (parse_line,        *)
(* parse_content), the vocabulary (SpellChecker::new, contains_word), the  *)
(* corrector (correct_word, correct_word_list), rendering (Display) and    *)
(* the orchestration of main with write_corrected_file.                    *)
(*                                                                         *)
(* A Rust String is modelled as a sequence of characters, each character a *)
(* one-letter TLA+ string.  Rust indexes and measures a str in BYTES of    *)
(* its UTF-8 encoding, so every character carries its encoded width        *)
(* (Utf8Len) and its code point (Ord), and slices are taken by byte range. *)
(* A text file is modelled by the sequence of lines str::lines() yields.   *)
(***************************************************************************)
EXTENDS Naturals, Sequences, FiniteSets, TLC

VARIABLES
    pc,              \* position of the run under the specification at hand
    words_part,      \* parse_tokens: its argument
    tokens,          \* parse_tokens: the Vec<Token> it returns
    line_number,     \* parse_line: its first argument
    line,            \* parse_line: its second argument
    parsed,          \* parse_line: what the call produced (Ok, Err or a panic)
    rendered,        \* format!("{}", word_list) of the parsed entry
    content,         \* parse_content: the lines of its argument
    entries,         \* parse_content: what the call produced
    dict_content,    \* SpellChecker::new: the lines of the file it read
    spell_checker,   \* SpellChecker::new: what the call produced
    word,            \* correct_word: its argument
    best_match,      \* correct_word: the String it returns
    fs,              \* main: the files and directories on disk
    word_lists,      \* main: the parsed entries
    corrected_lists, \* main: the corrected entries
    console          \* main: the last message printed

vars == <<pc, words_part, tokens, line_number, line, parsed, rendered, content,
          entries, dict_content, spell_checker, word, best_match, fs,
          word_lists, corrected_lists, console>>

tokVars     == <<words_part, tokens>>
lineVars    == <<line_number, line, parsed, rendered>>
contentVars == <<content, entries>>
dictVars    == <<dict_content, spell_checker, word, best_match>>
mainVars    == <<fs, word_lists, corrected_lists, console>>

---------------------------------------------------------------------------
(* Bounds of the model.                                                    *)

MaxContentLen == 3   \* characters of a word-content string given to parse_tokens
MaxLineLen    == 6   \* characters of a line given to parse_line
MaxLineNumber == 2   \* line numbers given to parse_line
MaxLines      == 3   \* lines of a word file given to parse_content
MaxDictLines  == 3   \* lines of a vocabulary file
MaxWordLen    == 2   \* characters of a vocabulary word

---------------------------------------------------------------------------
(* Characters and strings.                                                 *)

\* The separators, and the model's one character outside ASCII: "E" stands
\* for U+00E9 (e with acute accent), two bytes in UTF-8.
Space == " "
Slash == "/"
NonAscii == "E"

\* char::is_ascii_digit
is_ascii_digit(c) == c \in {"0", "1", "2", "3", "4", "5", "6", "7", "8", "9"}

\* The number of bytes of a character's UTF-8 encoding.
Utf8Len(c) == IF c = NonAscii THEN 2 ELSE 1

\* The code point of a character: the order of char, and (UTF-8 keeping the
\* order of code points) of String.
Ord(c) ==
    CASE c = " " -> 32
      [] c = "/" -> 47
      [] c = "0" -> 48
      [] c = "1" -> 49
      [] c = "a" -> 97
      [] c = "b" -> 98
      [] c = "c" -> 99
      [] c = NonAscii -> 233

\* All sequences over S of length lo..hi.
SeqsOf(S, lo, hi) == UNION {[1..n -> S] : n \in lo..hi}

RECURSIVE Concat(_)
Concat(ss) == IF ss = <<>> THEN <<>> ELSE Head(ss) \o Concat(Tail(ss))

\* str::len: the length in bytes.
RECURSIVE ByteLen(_)
ByteLen(s) == IF s = <<>> THEN 0 ELSE Utf8Len(Head(s)) + ByteLen(Tail(s))

\* The byte offset at which character i of s starts (i in 1..Len(s)+1).
ByteOffset(s, i) == ByteLen(SubSeq(s, 1, i - 1))

\* str::is_char_boundary
is_char_boundary(s, n) == \E i \in 1..(Len(s) + 1) : ByteOffset(s, i) = n

\* &s[from..to] for byte offsets that are character boundaries.
ByteSlice(s, from, to) ==
    LET first == CHOOSE i \in 1..(Len(s) + 1) : ByteOffset(s, i) = from
        last  == CHOOSE i \in 1..(Len(s) + 1) : ByteOffset(s, i) = to
    IN  SubSeq(s, first, last - 1)

\* char::is_whitespace, for the characters of the model.
is_whitespace(c) == c = Space

\* str::trim
RECURSIVE trim_start(_)
trim_start(s) ==
    IF s # <<>> /\ is_whitespace(Head(s)) THEN trim_start(Tail(s)) ELSE s

RECURSIVE trim_end(_)
trim_end(s) ==
    IF s # <<>> /\ is_whitespace(s[Len(s)])
    THEN trim_end(SubSeq(s, 1, Len(s) - 1))
    ELSE s

trim(s) == trim_end(trim_start(s))

\* The order of String: lexicographic by code point.
RECURSIVE StrLess(_, _)
StrLess(a, b) ==
    IF b = <<>> THEN FALSE
    ELSE IF a = <<>> THEN TRUE
    ELSE IF Ord(Head(a)) < Ord(Head(b)) THEN TRUE
    ELSE IF Ord(Head(a)) > Ord(Head(b)) THEN FALSE
    ELSE StrLess(Tail(a), Tail(b))

StrLeq(a, b) == a = b \/ StrLess(a, b)

---------------------------------------------------------------------------
(* Token and WordList.                                                     *)

Word(text)    == [kind |-> "Word", text |-> text]
Separator(ch) == [kind |-> "Separator", ch |-> ch]

IsWord(t) == t.kind = "Word"

WordList(id, toks) == [id |-> id, tokens |-> toks]

\* impl Display for Token
TokenDisplay(t) == IF IsWord(t) THEN t.text ELSE <<t.ch>>

\* A rendering with no space after the id.
WordListDisplayNoSpace(wl) ==
    wl.id \o Concat([i \in 1..Len(wl.tokens) |-> TokenDisplay(wl.tokens[i])])

\* impl Display for WordList: the id, one space, then every token.
WordListDisplay(wl) ==
    wl.id \o <<Space>> \o Concat([i \in 1..Len(wl.tokens) |-> TokenDisplay(wl.tokens[i])])

---------------------------------------------------------------------------
(* WordList::parse_tokens.                                                 *)

\* The loop of parse_tokens from character i on, with the tokens pushed so
\* far and the pending current_word.
RECURSIVE ScanTokens(_, _, _, _)
ScanTokens(s, i, toks, current_word) ==
    IF i > Len(s)
    THEN IF current_word # <<>> THEN Append(toks, Word(current_word)) ELSE toks
    ELSE IF s[i] = Space \/ s[i] = Slash
         THEN LET flushed == IF current_word # <<>>
                             THEN Append(toks, Word(current_word))
                             ELSE toks
              IN  ScanTokens(s, i + 1, Append(flushed, Separator(s[i])), <<>>)
         ELSE ScanTokens(s, i + 1, toks, Append(current_word, s[i]))

\* A tokenizer that pushes the separator only when it flushes a word.
RECURSIVE ScanTokensInsideIf(_, _, _, _)
ScanTokensInsideIf(s, i, toks, current_word) ==
    IF i > Len(s)
    THEN IF current_word # <<>> THEN Append(toks, Word(current_word)) ELSE toks
    ELSE IF s[i] = Space \/ s[i] = Slash
         THEN LET flushed == IF current_word # <<>>
                             THEN Append(Append(toks, Word(current_word)), Separator(s[i]))
                             ELSE toks
              IN  ScanTokensInsideIf(s, i + 1, flushed, <<>>)
         ELSE ScanTokensInsideIf(s, i + 1, toks, Append(current_word, s[i]))

parse_tokens_separator_inside_if(s) == ScanTokensInsideIf(s, 1, <<>>, <<>>)

parse_tokens(s) == ScanTokens(s, 1, <<>>, <<>>)

---------------------------------------------------------------------------
(* Results.  A Rust Result is Ok(value) or Err(error); a call that unwinds *)
(* instead of returning is Panic; None marks a call not made yet.          *)

Ok(v)  == [tag |-> "Ok", value |-> v]
Err(e) == [tag |-> "Err", error |-> e]
Panic  == [tag |-> "Panic"]
None   == [tag |-> "None"]

\* The error strings of parse_line and parse_content, by their parts.
TooShort(n, text)     == [msg |-> "is too short", line_number |-> n, text |-> text]
InvalidId(n, id)      == [msg |-> "has invalid ID", line_number |-> n, text |-> id]
NoValidWords(n, text) == [msg |-> "has no valid words", line_number |-> n, text |-> text]
NoValidEntries        == [msg |-> "cannot find any valid entries"]
DictionaryEmpty       == [msg |-> "Dictionary is empty"]
FailedToRead          == [msg |-> "Failed to read"]

---------------------------------------------------------------------------
(* WordList::parse_line.                                                   *)

\* &line[from..to]: a byte range that does not fall on character boundaries
\* panics.
SliceOk(s, from, to) ==
    from <= to /\ to <= ByteLen(s) /\ is_char_boundary(s, from) /\ is_char_boundary(s, to)

parse_line(n, l) ==
    IF ByteLen(l) < 5 THEN Err(TooShort(n, l))
    ELSE IF ~SliceOk(l, 0, 4) THEN Panic
    ELSE LET id == ByteSlice(l, 0, 4) IN
         IF ~(\A i \in 1..Len(id) : is_ascii_digit(id[i])) THEN Err(InvalidId(n, id))
         ELSE IF ~SliceOk(l, 5, ByteLen(l)) THEN Panic
         ELSE LET toks == parse_tokens(ByteSlice(l, 5, ByteLen(l))) IN
              IF ~(\E i \in 1..Len(toks) : IsWord(toks[i]))
              THEN Err(NoValidWords(n, l))
              ELSE Ok(WordList(id, toks))

---------------------------------------------------------------------------
(* WordList::parse_content.                                                *)

\* The iterator chain of parse_content from line i on: lines are numbered
\* from 1 before the blank ones are filtered out, and collecting into a
\* Result stops at the first Err (a panic unwinds out of the call).
RECURSIVE CollectLines(_, _, _)
CollectLines(ls, i, acc) ==
    IF i > Len(ls) THEN Ok(acc)
    ELSE LET l == trim(ls[i]) IN
         IF l = <<>> THEN CollectLines(ls, i + 1, acc)
         ELSE LET r == parse_line(i, l) IN
              IF r.tag = "Ok" THEN CollectLines(ls, i + 1, Append(acc, r.value))
              ELSE r

parse_content(ls) ==
    LET r == CollectLines(ls, 1, <<>>) IN
    IF r.tag = "Ok" /\ r.value = <<>> THEN Err(NoValidEntries) ELSE r

---------------------------------------------------------------------------
(* SpellChecker::new and contains_word.                                    *)

\* The lines of the dictionary file, trimmed, the empty ones dropped.
RECURSIVE TrimmedNonEmpty(_)
TrimmedNonEmpty(ls) ==
    IF ls = <<>> THEN <<>>
    ELSE LET l == trim(Head(ls)) IN
         IF l = <<>> THEN TrimmedNonEmpty(Tail(ls))
         ELSE <<l>> \o TrimmedNonEmpty(Tail(ls))

\* Vec<String>::sort_unstable: the ascending arrangement of the vector (equal
\* strings are indistinguishable, so it is unique).
RECURSIVE InsertSorted(_, _)
InsertSorted(x, sorted) ==
    IF sorted = <<>> THEN <<x>>
    ELSE IF StrLeq(x, Head(sorted)) THEN <<x>> \o sorted
    ELSE <<Head(sorted)>> \o InsertSorted(x, Tail(sorted))

RECURSIVE sort_unstable(_)
sort_unstable(v) ==
    IF v = <<>> THEN <<>> ELSE InsertSorted(Head(v), sort_unstable(Tail(v)))

\* A constructor that keeps the words in file order.
new_without_sort(ls) ==
    LET dictionary == TrimmedNonEmpty(ls) IN
    IF dictionary = <<>> THEN Err(DictionaryEmpty)
    ELSE Ok([dictionary |-> dictionary])

\* SpellChecker::new once the file is read.
new(ls) ==
    LET dictionary == TrimmedNonEmpty(ls) IN
    IF dictionary = <<>> THEN Err(DictionaryEmpty)
    ELSE Ok([dictionary |-> sort_unstable(dictionary)])

\* slice::binary_search(..).is_ok(): halving the range left..right (0-based,
\* right excluded) around its middle element.
RECURSIVE BinarySearchFinds(_, _, _, _)
BinarySearchFinds(v, x, left, right) ==
    IF left >= right THEN FALSE
    ELSE LET mid == left + (right - left) \div 2 IN
         IF StrLess(v[mid + 1], x) THEN BinarySearchFinds(v, x, mid + 1, right)
         ELSE IF StrLess(x, v[mid + 1]) THEN BinarySearchFinds(v, x, left, mid)
         ELSE TRUE

contains_word(dictionary, w) == BinarySearchFinds(dictionary, w, 0, Len(dictionary))

---------------------------------------------------------------------------
(* strsim::levenshtein and SpellChecker::correct_word.                     *)

Min2(x, y) == IF x <= y THEN x ELSE y

\* One row of the edit-distance table: cur[j + 1] is the distance between the
\* prefix of a ending in character ca and the first j characters of b, from
\* the row prev of the prefix one shorter.
RECURSIVE LevRow(_, _, _, _)
LevRow(prev, ca, b, cur) ==
    IF Len(cur) = Len(b) + 1 THEN cur
    ELSE LET j == Len(cur)
             cost == IF ca = b[j] THEN 0 ELSE 1
         IN  LevRow(prev, ca, b,
                    Append(cur, Min2(Min2(prev[j + 1] + 1, cur[j] + 1), prev[j] + cost)))

RECURSIVE LevRows(_, _, _, _)
LevRows(a, b, i, prev) ==
    IF i > Len(a) THEN prev[Len(b) + 1]
    ELSE LevRows(a, b, i + 1, LevRow(prev, a[i], b, <<i>>))

\* The Levenshtein distance of two strings, counted in characters.
levenshtein(a, b) == LevRows(a, b, 1, [j \in 1..(Len(b) + 1) |-> j - 1])

\* usize::MAX, by the largest integer TLC represents: no distance reaches it.
USIZE_MAX == 2147483647

\* The scan of correct_word from dictionary entry i on, with the best match
\* and the least distance so far.
RECURSIVE ScanDictionary(_, _, _, _, _)
ScanDictionary(dictionary, w, i, best, min_distance) ==
    IF i > Len(dictionary) THEN best
    ELSE LET distance == levenshtein(w, dictionary[i]) IN
         IF distance < min_distance
         THEN IF distance <= 1 THEN dictionary[i]
              ELSE ScanDictionary(dictionary, w, i + 1, dictionary[i], distance)
         ELSE ScanDictionary(dictionary, w, i + 1, best, min_distance)

\* The scan leaving early at a distance of 2.
RECURSIVE ScanDictionaryExitAtTwo(_, _, _, _, _)
ScanDictionaryExitAtTwo(dictionary, w, i, best, min_distance) ==
    IF i > Len(dictionary) THEN best
    ELSE LET distance == levenshtein(w, dictionary[i]) IN
         IF distance < min_distance
         THEN IF distance <= 2 THEN dictionary[i]
              ELSE ScanDictionaryExitAtTwo(dictionary, w, i + 1, dictionary[i], distance)
         ELSE ScanDictionaryExitAtTwo(dictionary, w, i + 1, best, min_distance)

\* The scan replacing the best match on a tie as well.
RECURSIVE ScanDictionaryOnTie(_, _, _, _, _)
ScanDictionaryOnTie(dictionary, w, i, best, min_distance) ==
    IF i > Len(dictionary) THEN best
    ELSE LET distance == levenshtein(w, dictionary[i]) IN
         IF distance <= min_distance
         THEN IF distance <= 1 THEN dictionary[i]
              ELSE ScanDictionaryOnTie(dictionary, w, i + 1, dictionary[i], distance)
         ELSE ScanDictionaryOnTie(dictionary, w, i + 1, best, min_distance)

correct_word_exit_at_two(dictionary, w) ==
    IF contains_word(dictionary, w) THEN w
    ELSE ScanDictionaryExitAtTwo(dictionary, w, 1, w, USIZE_MAX)

correct_word_replace_on_tie(dictionary, w) ==
    IF contains_word(dictionary, w) THEN w
    ELSE ScanDictionaryOnTie(dictionary, w, 1, w, USIZE_MAX)

correct_word(dictionary, w) ==
    IF contains_word(dictionary, w) THEN w
    ELSE ScanDictionary(dictionary, w, 1, w, USIZE_MAX)

\* A correction that keeps the words and loses the separators.
correct_word_list_words_only(dictionary, wl) ==
    WordList(wl.id,
             LET ws == SelectSeq(wl.tokens, IsWord) IN
             [i \in 1..Len(ws) |-> Word(correct_word(dictionary, ws[i].text))])

\* SpellChecker::correct_word_list
correct_word_list(dictionary, wl) ==
    WordList(wl.id,
             [i \in 1..Len(wl.tokens) |->
                 IF IsWord(wl.tokens[i])
                 THEN Word(correct_word(dictionary, wl.tokens[i].text))
                 ELSE Separator(wl.tokens[i].ch)])

---------------------------------------------------------------------------
(* The inputs of the model.                                                *)

\* Characters of a word-content string: word characters (one of them not
\* ASCII) and both separators.
ContentChars == {"a", NonAscii, Space, Slash}

\* Characters of a line: a digit as well.
LineChars == {"1", "a", NonAscii, Space, Slash}

\* Characters of vocabulary words and of the words to correct.
WordChars == {"a", "b"}

\* Lines of a vocabulary file: words, an empty line, a line of white space,
\* and a word with white space around it.
DictLinePool ==
    SeqsOf(WordChars, 1, MaxWordLen) \cup {<<>>, <<Space>>, <<Space, "a", Space>>}

\* Words given to correct_word: up to one character longer than the
\* vocabulary's.
InputWords == SeqsOf(WordChars, 1, MaxWordLen + 1)

\* Lines of a word file: two entries (one with white space around it), an
\* empty line, a line of white space, a short line, a line with a bad id, a
\* line of separators only, and a line whose fifth character is not ASCII.
LinePool ==
    { <<"0", "0", "0", "1", Space, "a">>,
      <<Space, "0", "0", "1", "1", Space, "a", Slash, Space, "b", "a", Space>>,
      <<>>,
      <<Space, Space>>,
      <<"0", "1">>,
      <<"0", "a", "0", "1", Space, "a">>,
      <<"0", "0", "0", "1", Space, Slash>>,
      <<"0", "0", "0", "1", NonAscii>> }

\* The variables a specification does not use stay as they start.
IdleTokens  == words_part = <<>> /\ tokens = None
IdleLine    == line_number = 0 /\ line = <<>> /\ parsed = None /\ rendered = None
IdleContent == content = <<>> /\ entries = None
IdleDict    == dict_content = <<>> /\ spell_checker = None /\ word = <<>> /\ best_match = None
IdleMain    == fs = None /\ word_lists = None /\ corrected_lists = None /\ console = None

---------------------------------------------------------------------------
(* SpecTokens: parse_tokens on every word-content string of the bounds.    *)

InitTokens ==
    /\ pc = "start"
    /\ words_part \in SeqsOf(ContentChars, 0, MaxContentLen)
    /\ tokens = None
    /\ IdleLine /\ IdleContent /\ IdleDict /\ IdleMain

ParseTokens ==
    /\ pc = "start"
    /\ tokens' = parse_tokens(words_part)
    /\ pc' = "tokenized"
    /\ UNCHANGED <<words_part, lineVars, contentVars, dictVars, mainVars>>

NextTokens == ParseTokens

SpecTokens == InitTokens /\ [][NextTokens]_vars

---------------------------------------------------------------------------
(* SpecLine: parse_line on every line of the bounds, then Display of the   *)
(* entry it accepted.                                                      *)

InitLine ==
    /\ pc = "start"
    /\ line \in SeqsOf(LineChars, 0, MaxLineLen)
    /\ line_number = 0
    /\ parsed = None
    /\ rendered = None
    /\ IdleTokens /\ IdleContent /\ IdleDict /\ IdleMain

ParseLine ==
    /\ pc = "start"
    /\ \E n \in 1..MaxLineNumber :
          /\ line_number' = n
          /\ parsed' = parse_line(n, line)
    /\ pc' = "parsed"
    /\ UNCHANGED <<line, rendered, tokVars, contentVars, dictVars, mainVars>>

Display ==
    /\ pc = "parsed"
    /\ parsed.tag = "Ok"
    /\ rendered' = WordListDisplay(parsed.value)
    /\ pc' = "rendered"
    /\ UNCHANGED <<line_number, line, parsed, tokVars, contentVars, dictVars, mainVars>>

NextLine == ParseLine \/ Display

SpecLine == InitLine /\ [][NextLine]_vars

---------------------------------------------------------------------------
(* SpecContent: parse_content on every word file of the bounds.            *)

InitContent ==
    /\ pc = "start"
    /\ content \in SeqsOf(LinePool, 0, MaxLines)
    /\ entries = None
    /\ IdleTokens /\ IdleLine /\ IdleDict /\ IdleMain

ParseContent ==
    /\ pc = "start"
    /\ entries' = parse_content(content)
    /\ pc' = "parsed"
    /\ UNCHANGED <<content, tokVars, lineVars, dictVars, mainVars>>

NextContent == ParseContent

SpecContent == InitContent /\ [][NextContent]_vars

---------------------------------------------------------------------------
(* SpecCorrect: SpellChecker::new on every vocabulary file of the bounds,  *)
(* then correct_word on every word of the bounds.  The text of the file is *)
(* a local of new and is gone when it returns.                             *)

InitCorrect ==
    /\ pc = "start"
    /\ dict_content \in SeqsOf(DictLinePool, 0, MaxDictLines)
    /\ spell_checker = None
    /\ word = <<>>
    /\ best_match = None
    /\ IdleTokens /\ IdleLine /\ IdleContent /\ IdleMain

New ==
    /\ pc = "start"
    /\ spell_checker' = new(dict_content)
    /\ dict_content' = <<>>
    /\ pc' = IF spell_checker'.tag = "Ok" THEN "loaded" ELSE "failed"
    /\ UNCHANGED <<word, best_match, tokVars, lineVars, contentVars, mainVars>>

CorrectWord ==
    /\ pc = "loaded"
    /\ \E w \in InputWords :
          /\ word' = w
          /\ best_match' = correct_word(spell_checker.value.dictionary, w)
    /\ pc' = "corrected"
    /\ UNCHANGED <<dict_content, spell_checker, tokVars, lineVars, contentVars, mainVars>>

NextCorrect == New \/ CorrectWord

SpecCorrect == InitCorrect /\ [][NextCorrect]_vars

---------------------------------------------------------------------------
(* Spec: a run of main.  The disk holds the directory "problem" with the   *)
(* word file, the vocabulary file and the output file in it; a file is     *)
(* Missing or File(lines).  Reading a file that exists may still fail.     *)

Missing     == [tag |-> "Missing"]
File(lines) == [tag |-> "File", lines |-> lines]

\* Vocabulary files of a run: an empty file, a file of blank lines, and two
\* files of words.
DictFiles ==
    { <<>>,
      << <<Space>>, <<>> >>,
      << <<"b">>, <<Space, "a", "b", Space>> >>,
      << <<"b", "a">>, <<>>, <<"a", "b">>, <<"b", "a">> >> }

\* An output file left by an earlier run.
StaleOutput == File(<< <<"0", "0", "0", "0", Space, "b">> >>)

\* fs::read_to_string(path): the lines of the file, or an error.
read_to_string(file, ok) == IF file.tag = "File" /\ ok THEN Ok(file.lines) ELSE Err(FailedToRead)

\* The text write_corrected_file builds: every entry's rendering and "\n".
OutputLines(lists) == [i \in 1..Len(lists) |-> WordListDisplay(lists[i])]

InitMain ==
    /\ pc = "check_word_file"
    /\ \E dir \in BOOLEAN :
       \E wf \in {Missing} \cup {File(c) : c \in SeqsOf(LinePool, 0, MaxLines)} :
       \E df \in {Missing} \cup {File(d) : d \in DictFiles} :
       \E out \in {Missing, StaleOutput} :
          /\ ~dir => wf = Missing /\ df = Missing /\ out = Missing
          /\ fs = [dir |-> dir, word_file |-> wf, dict_file |-> df, output |-> out]
    /\ spell_checker = None
    /\ word_lists = None
    /\ corrected_lists = None
    /\ console = "nothing"
    /\ dict_content = <<>> /\ word = <<>> /\ best_match = None
    /\ IdleTokens /\ IdleLine /\ IdleContent

\* if !Path::new(word_file).exists() { println!(..); return; }
MainCheckWordFile ==
    /\ pc = "check_word_file"
    /\ IF fs.word_file = Missing
       THEN console' = "Error: File does not exist" /\ pc' = "done"
       ELSE console' = console /\ pc' = "check_dict_file"
    /\ UNCHANGED <<fs, spell_checker, word_lists, corrected_lists, dict_content,
                   word, best_match, tokVars, lineVars, contentVars>>

\* if !Path::new(dict_file).exists() { println!(..); return; }
MainCheckDictFile ==
    /\ pc = "check_dict_file"
    /\ IF fs.dict_file = Missing
       THEN console' = "Error: Dictionary file does not exist" /\ pc' = "done"
       ELSE console' = console /\ pc' = "new"
    /\ UNCHANGED <<fs, spell_checker, word_lists, corrected_lists, dict_content,
                   word, best_match, tokVars, lineVars, contentVars>>

\* match SpellChecker::new(dict_file)
MainNew ==
    /\ pc = "new"
    /\ \E ok \in BOOLEAN :
          LET read == read_to_string(fs.dict_file, ok) IN
          spell_checker' = IF read.tag = "Ok" THEN new(read.value) ELSE read
    /\ IF spell_checker'.tag = "Ok"
       THEN console' = "Dictionary loaded successfully" /\ pc' = "read_and_get"
       ELSE console' = "Failed to initialize spell checker" /\ pc' = "done"
    /\ UNCHANGED <<fs, word_lists, corrected_lists, dict_content, word, best_match,
                   tokVars, lineVars, contentVars>>

\* A main that goes on with no entries when the word file does not parse.
MainReadAndGetGoesOn ==
    /\ pc = "read_and_get"
    /\ \E ok \in BOOLEAN :
          LET read == read_to_string(fs.word_file, ok) IN
          word_lists' = IF read.tag = "Ok" THEN parse_content(read.value) ELSE read
    /\ IF word_lists'.tag = "Ok"
       THEN console' = "Successfully parsed entries" /\ pc' = "correct"
       ELSE IF word_lists'.tag = "Err"
            THEN console' = "Failed to read word file" /\ pc' = "write"
            ELSE console' = "thread 'main' panicked" /\ pc' = "panicked"
    /\ corrected_lists' = IF word_lists'.tag = "Err" THEN Ok(<<>>) ELSE corrected_lists
    /\ UNCHANGED <<fs, spell_checker, dict_content, word, best_match,
                   tokVars, lineVars, contentVars>>

\* match WordList::read_and_get(word_file); a panic in parse_line unwinds
\* out of main.
MainReadAndGet ==
    /\ pc = "read_and_get"
    /\ \E ok \in BOOLEAN :
          LET read == read_to_string(fs.word_file, ok) IN
          word_lists' = IF read.tag = "Ok" THEN parse_content(read.value) ELSE read
    /\ IF word_lists'.tag = "Ok"
       THEN console' = "Successfully parsed entries" /\ pc' = "correct"
       ELSE IF word_lists'.tag = "Err"
            THEN console' = "Failed to read word file" /\ pc' = "done"
            ELSE console' = "thread 'main' panicked" /\ pc' = "panicked"
    /\ UNCHANGED <<fs, spell_checker, corrected_lists, dict_content, word, best_match,
                   tokVars, lineVars, contentVars>>

\* word_lists.iter().map(|word_list| spell_checker.correct_word_list(word_list)).collect()
MainCorrect ==
    /\ pc = "correct"
    /\ corrected_lists' =
          Ok([i \in 1..Len(word_lists.value) |->
                 correct_word_list(spell_checker.value.dictionary, word_lists.value[i])])
    /\ pc' = "write"
    /\ UNCHANGED <<fs, spell_checker, word_lists, console, dict_content, word, best_match,
                   tokVars, lineVars, contentVars>>

\* match write_corrected_file(&corrected_lists, output_file): the directory
\* is created when absent, then the file is written; either may fail.
MainWrite ==
    /\ pc = "write"
    /\ \E dir_ok \in BOOLEAN, write_ok \in BOOLEAN :
          IF ~fs.dir /\ ~dir_ok
          THEN fs' = fs /\ console' = "Failed to write output file: Failed to create directory"
          ELSE IF ~write_ok
               THEN /\ fs' = [fs EXCEPT !.dir = TRUE]
                    /\ console' = "Failed to write output file: Failed to write file"
               ELSE /\ fs' = [fs EXCEPT !.dir = TRUE,
                                        !.output = File(OutputLines(corrected_lists.value))]
                    /\ console' = "Correction completed!"
    /\ pc' = "done"
    /\ UNCHANGED <<spell_checker, word_lists, corrected_lists, dict_content, word, best_match,
                   tokVars, lineVars, contentVars>>

Next ==
    \/ MainCheckWordFile
    \/ MainCheckDictFile
    \/ MainNew
    \/ MainReadAndGet
    \/ MainCorrect
    \/ MainWrite

Spec == InitMain /\ [][Next]_vars

---------------------------------------------------------------------------
(* Claims about parse_tokens (SpecTokens).                                 *)

RenderTokens(toks) == Concat([i \in 1..Len(toks) |-> TokenDisplay(toks[i])])

\* C1: the renderings of the tokens parse_tokens returns, concatenated in
\* order, are the content string it was given.
C1_RoundTrip ==
    pc = "tokenized" => RenderTokens(tokens) = words_part

\* C1 witness: a content string starting with two separators and ending in
\* a non-ASCII word has been tokenized into three tokens.
C1_Witness ==
    /\ pc = "tokenized"
    /\ words_part = <<Slash, Space, NonAscii>>
    /\ tokens = <<Separator(Slash), Separator(Space), Word(<<NonAscii>>)>>

---------------------------------------------------------------------------
(* Claims about parse_line and Display (SpecLine).                         *)

LineParsed == pc \in {"parsed", "rendered"}

AllDigits(s) == \A i \in 1..Len(s) : is_ascii_digit(s[i])

HasWord(toks) == \E i \in 1..Len(toks) : IsWord(toks[i])

\* What the specification says parse_line returns, positions and lengths
\* counted in characters.
ParseLineByCharacters(n, l) ==
    IF Len(l) < 5 THEN Err(TooShort(n, l))
    ELSE IF ~AllDigits(SubSeq(l, 1, 4)) THEN Err(InvalidId(n, SubSeq(l, 1, 4)))
    ELSE IF ~HasWord(parse_tokens(SubSeq(l, 6, Len(l)))) THEN Err(NoValidWords(n, l))
    ELSE Ok(WordList(SubSeq(l, 1, 4), parse_tokens(SubSeq(l, 6, Len(l)))))

\* C6: parse_line checks the length (fewer than 5 characters: too short),
\* then the id (first 4 characters not all digits: invalid ID), then the
\* tokens of the text from position 5 (no Word: no valid words), and else
\* returns the entry; every error names the line number given.
C6_CheckOrder ==
    LineParsed => parsed = ParseLineByCharacters(line_number, line)

\* C6, on lines of ASCII characters only (where bytes and characters agree).
C6_CheckOrderAscii ==
    LineParsed /\ (\A i \in 1..Len(line) : line[i] # NonAscii)
        => parsed = ParseLineByCharacters(line_number, line)

\* C9: parse_line returns an entry or an error value on every line; it never
\* panics.
C9_ParseLineTotal ==
    LineParsed => parsed.tag \in {"Ok", "Err"}

\* C10 as stated: rendering the entry parsed from an accepted line gives that
\* line back.
C10_RenderIsInverse ==
    pc = "rendered" => rendered = line

\* C10 as amended: rendering the entry parsed from an accepted line gives the
\* line with its fifth character replaced by a space (so the line itself when
\* that character is a space).
C10_RenderUpToFifthCharacter ==
    pc = "rendered" =>
        /\ rendered = SubSeq(line, 1, 4) \o <<Space>> \o SubSeq(line, 6, Len(line))
        /\ (line[5] = Space => rendered = line)

\* C10 witness: a line with a slash after the id and a non-ASCII word has been
\* accepted and rendered.
C10_Witness ==
    /\ pc = "rendered"
    /\ line = <<"1", "1", "1", "1", Slash, NonAscii>>
    /\ rendered = <<"1", "1", "1", "1", Space, NonAscii>>

---------------------------------------------------------------------------
(* Claims about parse_content (SpecContent).                               *)

NonBlank(ls) == {i \in 1..Len(ls) : trim(ls[i]) # <<>>}

\* The entries or errors of the lines, in order of the set of positions I.
RECURSIVE InOrder(_, _)
InOrder(f, I) ==
    IF I = {} THEN <<>>
    ELSE LET m == CHOOSE i \in I : \A j \in I : i <= j
         IN  <<f[m]>> \o InOrder(f, I \ {m})

\* Whether r is what the specification says parse_content returns on ls.
ParseContentAllOrNothing(ls, r) ==
    LET res == [i \in NonBlank(ls) |-> parse_line(i, trim(ls[i]))]
        failing == {i \in NonBlank(ls) : res[i].tag # "Ok"}
    IN  IF NonBlank(ls) = {} THEN r = Err(NoValidEntries)
        ELSE IF failing = {}
             THEN r = Ok(InOrder([i \in NonBlank(ls) |-> res[i].value], NonBlank(ls)))
             ELSE LET first == CHOOSE i \in failing : \A j \in failing : i <= j
                  IN  /\ r.tag = "Err"
                      /\ res[first].tag = "Err"
                      /\ r.error = res[first].error
                      /\ r.error.line_number = first

WithoutBlankLines(ls) == SelectSeq(ls, LAMBDA l : trim(l) # <<>>)

\* A result with the line number of its error, if any, left out.
WithoutLineNumber(r) ==
    IF r.tag = "Err" /\ "line_number" \in DOMAIN r.error
    THEN Err([msg |-> r.error.msg, text |-> r.error.text])
    ELSE r

\* C7: parse_content returns all entries in order when every non-blank line
\* parses, else only the error of the first failing line with its position
\* in the original text, or "no valid entries" when every line is blank; and
\* but for line numbers the blank lines change nothing.
C7_AllOrNothing ==
    pc = "parsed" =>
        /\ ParseContentAllOrNothing(content, entries)
        /\ WithoutLineNumber(entries)
             = WithoutLineNumber(parse_content(WithoutBlankLines(content)))

\* C7, on files none of whose lines makes parse_line panic.
C7_AllOrNothingNoPanic ==
    pc = "parsed"
    /\ (\A i \in NonBlank(content) : parse_line(i, trim(content[i])).tag # "Panic")
        => /\ ParseContentAllOrNothing(content, entries)
           /\ WithoutLineNumber(entries)
                = WithoutLineNumber(parse_content(WithoutBlankLines(content)))

---------------------------------------------------------------------------
(* Claims about SpellChecker::new and correct_word (SpecCorrect).          *)

Elems(v) == {v[i] : i \in 1..Len(v)}

Dictionary == spell_checker.value.dictionary

Within(w, d) == {e \in Elems(Dictionary) : levenshtein(w, e) <= d}

MinDistance(w) ==
    CHOOSE d \in {levenshtein(w, e) : e \in Elems(Dictionary)} :
        \A e \in Elems(Dictionary) : d <= levenshtein(w, e)

\* C2: every trimmed non-blank line of the text SpellChecker::new reads is
\* in the vocabulary it builds, and correct_word returns a word of the
\* vocabulary unchanged.
C2_PassThrough ==
    [][ /\ (pc = "start" /\ pc' = "loaded" =>
               \A w \in Elems(TrimmedNonEmpty(dict_content)) :
                   /\ w \in Elems(spell_checker'.value.dictionary)
                   /\ correct_word(spell_checker'.value.dictionary, w) = w)
        /\ (pc = "loaded" /\ pc' = "corrected" /\ word' \in Elems(Dictionary) =>
               best_match' = word')
      ]_vars

\* C2 witness: a word of a vocabulary of three distinct words, not its first,
\* came back unchanged.
C2_Witness ==
    /\ pc = "corrected"
    /\ Cardinality(Elems(Dictionary)) = 3
    /\ word \in Elems(Dictionary)
    /\ word # Dictionary[1]
    /\ Within(word, 1) # {word}
    /\ best_match = word

\* C3: for a word not in the vocabulary with an entry within distance 1,
\* correct_word returns the first such entry in sorted order, so its result
\* is within distance 1 of the word.
C3_EarlyExit ==
    pc = "corrected" /\ word \notin Elems(Dictionary) /\ Within(word, 1) # {}
        => /\ best_match \in Within(word, 1)
           /\ \A e \in Within(word, 1) : StrLeq(best_match, e)
           /\ levenshtein(word, best_match) <= 1

\* C3 witness: the vocabulary's first entry is at distance 2 or more, two
\* later ones are within 1, and the first of these was returned.
C3_Witness ==
    /\ pc = "corrected"
    /\ word \notin Elems(Dictionary)
    /\ Cardinality(Within(word, 1)) >= 2
    /\ levenshtein(word, Dictionary[1]) >= 2
    /\ best_match \in Within(word, 1)

\* C4: for a word with no vocabulary entry within distance 1, correct_word
\* returns an entry at the least distance over the vocabulary, and of the
\* entries at that distance the lexicographically smallest.
C4_GlobalMinimum ==
    pc = "corrected" /\ word \notin Elems(Dictionary) /\ Within(word, 1) = {}
        => /\ best_match \in Elems(Dictionary)
           /\ levenshtein(word, best_match) = MinDistance(word)
           /\ \A e \in Elems(Dictionary) :
                 levenshtein(word, e) = MinDistance(word) => StrLeq(best_match, e)

\* C4 witness: the vocabulary's first entry is farther than the least
\* distance, two later entries tie at it, and the first of them was returned.
C4_Witness ==
    /\ pc = "corrected"
    /\ Within(word, 1) = {}
    /\ levenshtein(word, Dictionary[1]) > MinDistance(word)
    /\ Cardinality({e \in Elems(Dictionary) : levenshtein(word, e) = MinDistance(word)}) >= 2
    /\ levenshtein(word, best_match) = MinDistance(word)

---------------------------------------------------------------------------
(* Claims about main and correct_word_list (Spec).                         *)

Corrected == pc \in {"write", "done"} /\ corrected_lists.tag = "Ok"

\* C5: every corrected entry has the id and the number of tokens of the entry
\* it comes from, the same Separator wherever that has a Separator, and
\* Word(correct_word(w)) wherever it has Word(w); the parsed entries are
\* still what parse_content returned.
C5_OnlyWordTextsChange ==
    Corrected =>
        /\ word_lists = parse_content(fs.word_file.lines)
        /\ Len(corrected_lists.value) = Len(word_lists.value)
        /\ \A i \in 1..Len(word_lists.value) :
              LET in  == word_lists.value[i]
                  out == corrected_lists.value[i]
              IN  /\ out.id = in.id
                  /\ Len(out.tokens) = Len(in.tokens)
                  /\ \A j \in 1..Len(in.tokens) :
                        IF IsWord(in.tokens[j])
                        THEN out.tokens[j]
                               = Word(correct_word(spell_checker.value.dictionary,
                                                   in.tokens[j].text))
                        ELSE out.tokens[j] = in.tokens[j]

\* C5 witness: an entry with two separators in a row between two words has
\* been corrected, and both words were replaced.
C5_Witness ==
    /\ Corrected
    /\ \E i \in 1..Len(word_lists.value) :
          LET in  == word_lists.value[i]
              out == corrected_lists.value[i]
          IN  /\ Len(in.tokens) = 4
              /\ in.tokens[2] = Separator(Slash) /\ in.tokens[3] = Separator(Space)
              /\ out.tokens[1] # in.tokens[1]
              /\ out.tokens[4] # in.tokens[4]

\* What the run's inputs allow: both files present, a vocabulary that loads,
\* and a word file every line of which parses.
InputsGood ==
    /\ fs.word_file # Missing
    /\ fs.dict_file # Missing
    /\ new(fs.dict_file.lines).tag = "Ok"
    /\ parse_content(fs.word_file.lines).tag = "Ok"

\* C8: a step of main that creates the directory or writes the output file
\* is taken only with the vocabulary loaded and every entry of the word file
\* parsed and corrected; with an input file missing, an empty vocabulary or
\* a line that does not parse, no step touches the disk.
C8_NoOutputOnFailure ==
    [][ fs' # fs =>
          /\ InputsGood
          /\ spell_checker = new(fs.dict_file.lines)
          /\ word_lists = parse_content(fs.word_file.lines)
          /\ corrected_lists.tag = "Ok"
          /\ Len(corrected_lists.value) = Len(word_lists.value)
          /\ fs'.word_file = fs.word_file /\ fs'.dict_file = fs.dict_file
      ]_vars

\* C8 witness: a run has ended with two corrected entries written over the
\* output of an earlier run.
C8_Witness ==
    /\ pc = "done"
    /\ console = "Correction completed!"
    /\ fs.output # StaleOutput
    /\ fs.output.tag = "File"
    /\ Len(fs.output.lines) = 2

=============================================================================
